---- MODULE Spec2Model ----
(***************************************************************************)
(* The API gateway (reverse proxy, health aggregation, CORS boundary) in   *)
(* front of the user and product services.                                  *)
(*                                                                         *)
(* A request path is modelled by the sequence of its segments: the path    *)
(* "/" \o s1 \o "/" \o s2 ... is <<s1, s2, ...>>, so "/" is <<"">>,         *)
(* "/api/" is <<"api", "">> and "/api/users/1" is <<"api","users","1">>.    *)
(* strings.Split(path, "/") is therefore <<"">> \o segments.                *)
(***************************************************************************)
EXTENDS Integers, Sequences, FiniteSets, TLC

\* ------------------------------------------------------------------ bounds
MaxSegs == 3        \* longest request path, in segments
MaxElapsed == 3     \* the clock of an outbound call is observed up to here

\* ------------------------------------------------------- program constants
ProbeTimeout == 2   \* http.Client{Timeout: 2 * time.Second}
NoTimeout == 0      \* an outbound call without any deadline

StatusOK == 200
StatusMovedPermanently == 301
StatusNotFound == 404
StatusServiceUnavailable == 503
StatusCreated == 201
StatusNoContent == 204
StatusBadRequest == 400
StatusMethodNotAllowed == 405
StatusInternalServerError == 500

\* ------------------------------------------------------------------ inputs
Methods == {"GET", "POST", "PUT", "DELETE", "OPTIONS"}
Segments == {"api", "users", "products", "orders", "health", "1", "", ".."}
ReqBodies == {"", "reqbody"}
RespBodies == {"b1", "b2"}

RECURSIVE SeqsUpTo(_, _)
SeqsUpTo(S, n) ==
    IF n = 0 THEN {<<>>}
    ELSE LET shorter == SeqsUpTo(S, n - 1)
         IN  shorter \cup {Append(q, s) : q \in {x \in shorter : Len(x) = n - 1}, s \in S}

Paths == SeqsUpTo(Segments, MaxSegs) \ {<<>>}

UserURL == "http://u:8081"
ProductURL == "http://p:8082"
EmptyURL == ""
BadURL == ":bad"

ServiceNames == {"users", "products"}

\* os.Getenv of the two variables: the documented value, unset, or garbage
Configs ==
    {[users |-> u, products |-> p] : u \in {UserURL, EmptyURL, BadURL},
                                     p \in {ProductURL, EmptyURL, BadURL}}

Slots == {1}

VARIABLES serviceMap, gwState, reqs, sawProxyError, down

VARIABLES proc, dbOK, users, userSeq, products, productSeq, hist

VARIABLES life

gwVars == <<serviceMap, gwState, reqs, sawProxyError, down>>

crudVars == <<proc, dbOK, users, userSeq, products, productSeq, hist>>

vars == <<gwVars, crudVars, life>>

\* the last request a backend service handled: nothing yet
NoHist ==
    [op |-> "none", id |-> <<>>, in |-> "", dbOK |-> TRUE, pre |-> {},
     status |-> 0, msg |-> "", rows |-> {}]

\* a backend process that is not being followed through start and shutdown
NoLife ==
    [phase |-> "none", env |-> "none", sig |-> FALSE, bound |-> FALSE, listening |-> FALSE,
     inflight |-> 0, accepted |-> FALSE, late |-> FALSE, clock |-> 0, exit |-> "none"]

\* the process under study is the gateway: it has no database and no tables
NoBackend ==
    /\ proc = "gateway"
    /\ life = NoLife
    /\ dbOK = TRUE
    /\ users = {}
    /\ userSeq = 0
    /\ products = {}
    /\ productSeq = 0
    /\ hist = NoHist

\* ------------------------------------------------------------ pure helpers
NoCall ==
    [kind |-> "none", svc |-> "", url |-> "", method |-> "", path |-> <<>>,
     body |-> "", timeout |-> NoTimeout, elapsed |-> 0, ctx |-> "none"]
NoResp == [status |-> 0, body |-> "", cors |-> FALSE, from |-> "none"]
NoAnswer == [kind |-> "none", route |-> "none", status |-> 0, body |-> ""]

Last(s) == s[Len(s)]

\* path.Clean on the segments: empty segments vanish, ".." pops
RECURSIVE CleanSegs(_, _)
CleanSegs(rest, acc) ==
    IF rest = <<>> THEN acc
    ELSE LET s == Head(rest)
         IN  IF s = "" THEN CleanSegs(Tail(rest), acc)
             ELSE IF s = ".."
                  THEN CleanSegs(Tail(rest),
                                 IF acc = <<>> THEN acc ELSE SubSeq(acc, 1, Len(acc) - 1))
                  ELSE CleanSegs(Tail(rest), Append(acc, s))

\* net/http cleanPath: path.Clean, keeping a trailing slash
cleanPath(p) ==
    LET np == CleanSegs(p, <<>>)
    IN  IF np = <<>> THEN <<"">>
        ELSE IF Last(p) = "" THEN Append(np, "") ELSE np

\* strings.HasPrefix(r.URL.Path, "/api/")
HasApiPrefix(p) == Len(p) >= 2 /\ p[1] = "api"

\* mutant: the path is trimmed of slashes before it is split
pathPartsTrimmed(p) == SelectSeq(p, LAMBDA seg : seg # "")

\* strings.Split(r.URL.Path, "/")
pathParts(p) == <<"">> \o p

\* mutant: the service token is stripped together with the prefix
RewriteStripService(p) ==
    IF HasApiPrefix(p) THEN (IF Len(p) > 2 THEN SubSeq(p, 3, Len(p)) ELSE <<"">>) ELSE p

\* mutant: the path is forwarded as it came
RewriteKeepAll(p) == p

\* "/" + strings.TrimPrefix(r.URL.Path, "/api/")
RewritePath(p) == IF HasApiPrefix(p) THEN Tail(p) ELSE p

\* mutant: an empty base URL is refused like one that does not parse
ParseOKStrict(u) == u \notin {BadURL, EmptyURL}

\* url.Parse of the stored base URL
ParseOK(u) == u # BadURL

\* whether the transport can send to the URL at all (scheme and host present)
Dialable(u) == u \in {UserURL, ProductURL}

\* ------------------------------------------------- net/http.ServeMux (1.22+)
\* mutant: the health handler registered on the subtree "/health/"
GatewayMatchHealthTree(p) ==
    IF Len(p) >= 2 /\ p[1] = "health" THEN "/health"
    ELSE IF HasApiPrefix(p) THEN "/api/"
    ELSE "none"

\* the gateway registers "/health" and "/api/"
GatewayMatch(p) ==
    IF p = <<"health">> THEN "/health"
    ELSE IF HasApiPrefix(p) THEN "/api/"
    ELSE "none"

\* ServeMux.findHandler for a non-CONNECT request: the path is cleaned, "/tree"
\* is redirected to a registered "/tree/", an unclean path is redirected to
\* its cleaned form, and what matches nothing gets NotFoundHandler
GatewayMux(p) ==
    LET cp == cleanPath(p)
    IN  IF GatewayMatch(cp) = "none" /\ Last(cp) # "" /\ GatewayMatch(Append(cp, "")) # "none"
        THEN [kind |-> "redirect", pattern |-> GatewayMatch(Append(cp, ""))]
        ELSE IF cp # p
             THEN [kind |-> "redirect", pattern |-> GatewayMatch(cp)]
             ELSE IF GatewayMatch(cp) = "none"
                  THEN [kind |-> "notfound", pattern |-> "none"]
                  ELSE [kind |-> "handler", pattern |-> GatewayMatch(cp)]

\* a backend registers "/health", "/<res>" and "/<res>/{id}"; {id} matches
\* exactly one non-empty segment
BackendMatch(res, p) ==
    IF p = <<"health">> THEN "health"
    ELSE IF p = <<res>> THEN "collection"
    ELSE IF Len(p) = 2 /\ p[1] = res /\ p[2] # "" THEN "item"
    ELSE "none"

BackendMux(res, p) ==
    LET cp == cleanPath(p)
    IN  IF cp # p THEN "redirect" ELSE BackendMatch(res, cp)

\* the resource a backend serves
Resource(url) == IF url = UserURL THEN "users" ELSE "products"

\* the status codes a backend can answer with, by route and method
BackendStatuses(res, method, p) ==
    LET route == BackendMux(res, p)
    IN  CASE route = "redirect" -> {StatusMovedPermanently}
          [] route = "none" -> {StatusNotFound}
          [] route = "health" -> {StatusOK, StatusServiceUnavailable}
          [] route = "collection" ->
                CASE method = "GET" -> {StatusOK, StatusInternalServerError}
                  [] method = "POST" ->
                        {StatusCreated, StatusBadRequest, StatusInternalServerError}
                  [] OTHER -> {StatusMethodNotAllowed}
          [] route = "item" ->
                CASE method = "GET" ->
                        {StatusOK, StatusBadRequest, StatusInternalServerError}
                  [] method = "PUT" ->
                        {StatusOK, StatusBadRequest, StatusInternalServerError}
                  [] method = "DELETE" ->
                        {StatusNoContent, StatusBadRequest, StatusInternalServerError}
                  [] OTHER -> {StatusMethodNotAllowed}

\* the bodies that go with them: the mux's own 404 text, or what a handler wrote
BackendBodies(res, p) ==
    IF BackendMux(res, p) = "none" THEN {"404 page not found"}
    ELSE IF BackendMux(res, p) = "redirect" THEN {""}
    ELSE RespBodies

\* ---------------------------------------------------------------- requests
FreeSlot ==
    [st |-> "free", method |-> "", path |-> <<>>, body |-> "", handler |-> "none",
     out |-> NoCall, sent |-> <<>>, todo |-> {}, services |-> <<>>, probeLog |-> <<>>,
     allHealthy |-> TRUE, answer |-> NoAnswer, resp |-> NoResp, client |-> "here"]

\* what the backend sees of an outbound call
Wire(c) == [kind |-> c.kind, svc |-> c.svc, url |-> c.url, method |-> c.method,
            path |-> c.path, body |-> c.body]

\* the handler returns: the response is complete
Respond(s, status, body, from) ==
    [s EXCEPT !.st = "done", !.out = NoCall,
              !.resp = [status |-> status, body |-> body, cors |-> s.resp.cors, from |-> from]]

\* http.Error(w, msg, code)
HttpError(s, msg, code) == Respond(s, code, msg, "gateway")

\* mutant: no ErrorHandler set, ReverseProxy's default answers 502
DefaultErrorHandler(s) == Respond(s, 502, "", "gateway")

\* proxy.ErrorHandler
ErrorHandler(s) == HttpError(s, "Service unavailable", StatusServiceUnavailable)

\* the proxy's transport failed: the backend produced no response
TransportFailed(s) ==
    ErrorHandler([s EXCEPT !.answer = [kind |-> "error", route |-> "none", status |-> 0, body |-> ""]])

\* mutant: a non-200 answer is treated like an unavailable backend
RelayAsUnavailable(s, route, code, b) ==
    LET a == [s EXCEPT !.answer = [kind |-> "answer", route |-> route, status |-> code, body |-> b]]
    IN  IF code # StatusOK THEN ErrorHandler(a) ELSE Respond(a, code, b, "backend")

\* mutant: the backend's body is relayed under a 200 whatever the backend said
RelayBodyOnly(s, route, code, b) ==
    Respond([s EXCEPT !.answer = [kind |-> "answer", route |-> route, status |-> code, body |-> b]],
            StatusOK, b, "backend")

\* httputil.ReverseProxy copies the backend's status code and body to the caller
RelayResponse(s, route, code, b) ==
    Respond([s EXCEPT !.answer = [kind |-> "answer", route |-> route, status |-> code, body |-> b]],
            code, b, "backend")

\* the inbound request's context was cancelled: the round trip is abandoned
\* and the proxy reports the error to its ErrorHandler
Cancelled(s) ==
    ErrorHandler([s EXCEPT !.answer = [kind |-> "cancelled", route |-> "none", status |-> 0, body |-> ""]])

\* the outbound request httputil.ReverseProxy builds: the target's scheme and
\* host, the (rewritten) request path joined to the target's empty base path,
\* the inbound method and body; http.DefaultTransport sets no response deadline;
\* the outbound request is a clone of the inbound one and shares its context
ProxyCall(service, targetURL, method, path, body) ==
    [kind |-> "proxy", svc |-> service, url |-> targetURL, method |-> method,
     path |-> path, body |-> body, timeout |-> NoTimeout, elapsed |-> 0, ctx |-> "request"]

\* proxy.ServeHTTP up to the point where it waits for the backend
ServeHTTP(s, service, targetURL, newPath) ==
    IF ~Dialable(targetURL)
    THEN TransportFailed(s)
    ELSE LET c == ProxyCall(service, targetURL, s.method, newPath, s.body)
         IN  [s EXCEPT !.st = "proxying", !.out = c, !.sent = Append(@, Wire(c))]

\* mutant: the map is read without the comma-ok check
LookupNoCheck(sm, service) ==
    [exists |-> TRUE, url |-> IF service \in DOMAIN sm THEN sm[service] ELSE EmptyURL]

\* targetURL, exists := g.serviceMap[service]
Lookup(sm, service) ==
    [exists |-> service \in DOMAIN sm, url |-> IF service \in DOMAIN sm THEN sm[service] ELSE EmptyURL]

\* mutant: the error of url.Parse is dropped and the proxy is built anyway
routeRequestIgnoreParse(sm, s0) ==
    LET s == [s0 EXCEPT !.handler = "routeRequest"]
    IN  IF ~HasApiPrefix(s.path) THEN HttpError(s, "Invalid path", StatusNotFound)
        ELSE IF Len(pathParts(s.path)) < 3 THEN HttpError(s, "Invalid path", StatusNotFound)
        ELSE LET service == pathParts(s.path)[3]
                 target == Lookup(sm, service)
             IN  IF ~target.exists
                 THEN HttpError(s, "Service not found", StatusNotFound)
                 ELSE ServeHTTP(s, service, target.url, RewritePath(s.path))

\* the handler of "/api/": prefix check, split, registry lookup, url.Parse,
\* then a single-host reverse proxy on the rewritten path
routeRequest(sm, s0) ==
    LET s == [s0 EXCEPT !.handler = "routeRequest"]
    IN  IF ~HasApiPrefix(s.path) THEN HttpError(s, "Invalid path", StatusNotFound)
        ELSE IF Len(pathParts(s.path)) < 3 THEN HttpError(s, "Invalid path", StatusNotFound)
        ELSE LET service == pathParts(s.path)[3]
                 target == Lookup(sm, service)
             IN  IF ~target.exists
                 THEN HttpError(s, "Service not found", StatusNotFound)
                 ELSE IF ~ParseOK(target.url)
                      THEN HttpError(s, "Invalid URL", StatusNotFound)
                      ELSE ServeHTTP(s, service, target.url, RewritePath(s.path))

\* ------------------------------------------------------------ health check
\* client.Get builds its request without the inbound request's context
ProbeCall(name, url) ==
    [kind |-> "probe", svc |-> name, url |-> url, method |-> "GET",
     path |-> <<"health">>, body |-> "", timeout |-> ProbeTimeout, elapsed |-> 0,
     ctx |-> "background"]

\* mutant: only the error is looked at, not the status code
ProbeStatusErrOnly(err, code) == IF err THEN "unhealthy" ELSE "healthy"

\* one iteration's verdict: err != nil, or resp.StatusCode != http.StatusOK
ProbeStatus(err, code) ==
    IF err THEN "unhealthy" ELSE IF code # StatusOK THEN "unhealthy" ELSE "healthy"

\* mutant: status is declared outside the loop and never reset to "healthy"
RecordProbeSticky(sm, s, name, err, code) ==
    LET st == IF ~s.allHealthy THEN "unhealthy" ELSE ProbeStatus(err, code)
    IN  [s EXCEPT !.out = NoCall,
                  !.allHealthy = @ /\ st = "healthy",
                  !.probeLog = Append(@, [name |-> name, err |-> err, code |-> code]),
                  !.services = Append(@, [name |-> name, status |-> st, url |-> sm[name]])]

\* mutant: the loop breaks at the first probe that returns an error
RecordProbeBreak(sm, s, name, err, code) ==
    [s EXCEPT !.out = NoCall,
              !.todo = IF err THEN {} ELSE @,
              !.allHealthy = @ /\ ProbeStatus(err, code) = "healthy",
              !.probeLog = Append(@, [name |-> name, err |-> err, code |-> code]),
              !.services = Append(@, [name |-> name, status |-> ProbeStatus(err, code),
                                      url |-> sm[name]])]

\* the end of one loop iteration: allHealthy and the services slice
RecordProbe(sm, s, name, err, code) ==
    [s EXCEPT !.out = NoCall,
              !.allHealthy = @ /\ ProbeStatus(err, code) = "healthy",
              !.probeLog = Append(@, [name |-> name, err |-> err, code |-> code]),
              !.services = Append(@, [name |-> name, status |-> ProbeStatus(err, code),
                                      url |-> sm[name]])]

\* after the loop: the aggregate and the status code
HealthRespond(s) ==
    IF ~s.allHealthy
    THEN Respond(s, StatusServiceUnavailable, "degraded", "gateway")
    ELSE Respond(s, StatusOK, "healthy", "gateway")

\* the loop over g.serviceMap (in any order) up to the next probe that is
\* actually sent; client.Get fails at once on a URL it cannot send to
RECURSIVE HealthLoop(_, _)
HealthLoop(sm, s) ==
    IF s.todo = {} THEN {HealthRespond(s)}
    ELSE UNION {
           LET rest == [s EXCEPT !.todo = @ \ {name}]
           IN  IF Dialable(sm[name])
               THEN {[rest EXCEPT !.st = "probing", !.out = ProbeCall(name, sm[name]),
                                  !.sent = Append(@, Wire(ProbeCall(name, sm[name])))]}
               ELSE HealthLoop(sm, RecordProbe(sm, rest, name, TRUE, 0))
           : name \in s.todo }

healthCheck(sm, s0) ==
    HealthLoop(sm, [s0 EXCEPT !.handler = "healthCheck", !.todo = DOMAIN sm])

\* --------------------------------------------------------- CORS middleware
\* mutant: the preflight branch writes 200 but does not return
corsNoReturn(next, sm, s0) ==
    LET s == [s0 EXCEPT !.resp.cors = TRUE]
    IN  IF next = "healthCheck" THEN healthCheck(sm, s) ELSE {routeRequest(sm, s)}

corsMiddleware(next, sm, s0) ==
    LET s == [s0 EXCEPT !.resp.cors = TRUE]
    IN  IF s.method = "OPTIONS"
        THEN {Respond(s, StatusOK, "", "cors")}
        ELSE IF next = "healthCheck" THEN healthCheck(sm, s) ELSE {routeRequest(sm, s)}

\* http.HandleFunc("/health", ...) and http.HandleFunc("/api/", ...)
Registered(pattern) == IF pattern = "/health" THEN "healthCheck" ELSE "routeRequest"

\* the server's dispatch of one inbound request
Dispatch(sm, s) ==
    LET d == GatewayMux(s.path)
    IN  CASE d.kind = "redirect" -> {Respond(s, StatusMovedPermanently, "", "mux")}
          [] d.kind = "notfound" -> {Respond(s, StatusNotFound, "404 page not found", "mux")}
          [] OTHER -> corsMiddleware(Registered(d.pattern), sm, s)

\* ----------------------------------------------------------------- actions
Init ==
    /\ serviceMap \in Configs
    /\ gwState = "starting"
    /\ reqs = [r \in Slots |-> FreeSlot]
    /\ sawProxyError = FALSE
    /\ down = {}
    /\ NoBackend

\* main: the registry is built from whatever the environment holds and the
\* server starts listening; nothing is validated
Startup ==
    /\ gwState = "starting"
    /\ gwState' = "serving"
    /\ UNCHANGED <<serviceMap, reqs, sawProxyError, down, crudVars, life>>

\* mutant: requests share one URL object, so a request that arrives while
\* another one has been rewritten is routed on the rewritten path
ReceiveOfSharedURL(r, M, P, B) ==
    /\ gwState = "serving"
    /\ reqs[r].st = "free"
    /\ \E m \in M, p \in P, b \in B :
         LET others == {o \in DOMAIN reqs : o # r /\ Len(reqs[o].sent) > 0
                                                 /\ reqs[o].sent[1].kind = "proxy"}
             seen   == IF others = {} THEN p ELSE reqs[CHOOSE o \in others : TRUE].sent[1].path
         IN  \E s \in Dispatch(serviceMap, [FreeSlot EXCEPT !.method = m, !.path = seen, !.body = b]) :
                reqs' = [reqs EXCEPT ![r] = [s EXCEPT !.path = p]]
    /\ UNCHANGED <<serviceMap, gwState, sawProxyError, down, crudVars, life>>

\* a client's request arrives and runs until it returns or waits on a backend
ReceiveOf(r, M, P, B) ==
    /\ gwState = "serving"
    /\ reqs[r].st = "free"
    /\ \E m \in M, p \in P, b \in B :
         \E s \in Dispatch(serviceMap, [FreeSlot EXCEPT !.method = m, !.path = p, !.body = b]) :
            reqs' = [reqs EXCEPT ![r] = s]
    /\ UNCHANGED <<serviceMap, gwState, sawProxyError, down, crudVars, life>>

Receive(r) == ReceiveOf(r, Methods, Paths, ReqBodies)

\* the backend answers the proxied call; the proxy copies status and body
BackendAnswer(r) ==
    /\ gwState = "serving"
    /\ reqs[r].out.kind = "proxy"
    /\ reqs[r].out.svc \notin down
    /\ \E code \in BackendStatuses(Resource(reqs[r].out.url), reqs[r].out.method, reqs[r].out.path),
          b \in BackendBodies(Resource(reqs[r].out.url), reqs[r].out.path) :
         reqs' = [reqs EXCEPT ![r] =
                    RelayResponse(reqs[r], BackendMux(Resource(reqs[r].out.url), reqs[r].out.path),
                                  code, b)]
    /\ UNCHANGED <<serviceMap, gwState, sawProxyError, down, crudVars, life>>

\* mutant: the error handler blanks the registry entry of the failed backend
ProxyErrorEvicts(r) ==
    /\ gwState = "serving"
    /\ reqs[r].out.kind = "proxy"
    /\ reqs' = [reqs EXCEPT ![r] = TransportFailed(reqs[r])]
    /\ sawProxyError' = TRUE
    /\ serviceMap' = [serviceMap EXCEPT ![reqs[r].out.svc] = EmptyURL]
    /\ UNCHANGED <<gwState, down, crudVars, life>>

\* mutant: the failed call is sent a second time before the handler gives up
ProxyErrorRetries(r) ==
    /\ gwState = "serving"
    /\ reqs[r].out.kind = "proxy"
    /\ reqs' = [reqs EXCEPT ![r] =
                  IF Len(reqs[r].sent) < 2
                  THEN [reqs[r] EXCEPT !.sent = Append(@, Wire(reqs[r].out))]
                  ELSE TransportFailed(reqs[r])]
    /\ sawProxyError' = TRUE
    /\ UNCHANGED <<serviceMap, gwState, down, crudVars, life>>

\* the transport fails (connection refused, reset): proxy.ErrorHandler runs
ProxyError(r) ==
    /\ gwState = "serving"
    /\ reqs[r].out.kind = "proxy"
    /\ reqs' = [reqs EXCEPT ![r] = TransportFailed(reqs[r])]
    /\ sawProxyError' = TRUE
    /\ UNCHANGED <<serviceMap, gwState, down, crudVars, life>>

\* the backend answers a health probe before the client's timeout
ProbeAnswer(r) ==
    /\ gwState = "serving"
    /\ reqs[r].out.kind = "probe"
    /\ reqs[r].out.svc \notin down
    /\ reqs[r].out.elapsed < reqs[r].out.timeout
    /\ \E code \in BackendStatuses(Resource(reqs[r].out.url), "GET", reqs[r].out.path) :
         \E s \in HealthLoop(serviceMap, RecordProbe(serviceMap, reqs[r], reqs[r].out.svc, FALSE, code)) :
            reqs' = [reqs EXCEPT ![r] = s]
    /\ UNCHANGED <<serviceMap, gwState, sawProxyError, down, crudVars, life>>

\* client.Get returns an error: refused, reset, or the client's timeout
ProbeError(r) ==
    /\ gwState = "serving"
    /\ reqs[r].out.kind = "probe"
    /\ \E s \in HealthLoop(serviceMap, RecordProbe(serviceMap, reqs[r], reqs[r].out.svc, TRUE, 0)) :
         reqs' = [reqs EXCEPT ![r] = s]
    /\ UNCHANGED <<serviceMap, gwState, sawProxyError, down, crudVars, life>>

\* time passes for a call in flight; a call with a timeout cannot outlive it
Tick(r) ==
    /\ gwState = "serving"
    /\ reqs[r].out.kind # "none"
    /\ reqs[r].out.elapsed < MaxElapsed
    /\ reqs[r].out.timeout = NoTimeout \/ reqs[r].out.elapsed < reqs[r].out.timeout
    /\ reqs' = [reqs EXCEPT ![r].out.elapsed = @ + 1]
    /\ UNCHANGED <<serviceMap, gwState, sawProxyError, down, crudVars, life>>

\* the client has read the response; the connection serves the next request
Close(r) ==
    /\ gwState = "serving"
    /\ reqs[r].st = "done"
    /\ reqs' = [reqs EXCEPT ![r] = FreeSlot]
    /\ UNCHANGED <<serviceMap, gwState, sawProxyError, down, crudVars, life>>

\* the client goes away while its request waits on a backend: the server
\* cancels the inbound request's context, and with it every outbound call
\* that was made under that context
Disconnect(s) ==
    IF s.out.ctx = "request" THEN Cancelled([s EXCEPT !.client = "gone"])
    ELSE [s EXCEPT !.client = "gone"]

ClientDisconnect(r) ==
    /\ gwState = "serving"
    /\ reqs[r].out.kind # "none"
    /\ reqs[r].client = "here"
    /\ reqs' = [reqs EXCEPT ![r] = Disconnect(reqs[r])]
    /\ UNCHANGED <<serviceMap, gwState, sawProxyError, down, crudVars, life>>

\* a backend becomes unreachable, or reachable again
BackendDown(b) ==
    /\ gwState = "serving"
    /\ b \notin down
    /\ down' = down \cup {b}
    /\ UNCHANGED <<serviceMap, gwState, reqs, sawProxyError, crudVars, life>>

BackendUp(b) ==
    /\ gwState = "serving"
    /\ b \in down
    /\ down' = down \ {b}
    /\ UNCHANGED <<serviceMap, gwState, reqs, sawProxyError, crudVars, life>>

\* what becomes of a request when the process ends: one whose handler was
\* still running is cut off without a response
Abort(s) ==
    IF s.st \in {"proxying", "probing"} THEN [s EXCEPT !.st = "aborted", !.out = NoCall]
    ELSE FreeSlot

\* SIGINT/SIGTERM: main installs no handler, the process ends at once
Signal ==
    /\ gwState = "serving"
    /\ gwState' = "exited"
    /\ reqs' = [r \in DOMAIN reqs |-> Abort(reqs[r])]
    /\ UNCHANGED <<serviceMap, sawProxyError, down, crudVars, life>>

Next ==
    \/ Startup
    \/ \E r \in Slots : Receive(r)
    \/ \E r \in Slots : BackendAnswer(r)
    \/ \E r \in Slots : ProxyError(r)
    \/ \E r \in Slots : ProbeAnswer(r)
    \/ \E r \in Slots : ProbeError(r)
    \/ \E r \in Slots : Tick(r)
    \/ \E r \in Slots : Close(r)
    \/ \E r \in Slots : ClientDisconnect(r)
    \/ Signal

Spec == Init /\ [][Next]_vars

\* ------------------------------------------------ two requests at a time
\* the server runs every request in a goroutine of its own; here two of them
\* interleave, over a few representative requests, while backends come and go
ConcSlots == {1, 2}
ConcMethods == {"GET", "OPTIONS"}
ConcPaths == {<<"health">>, <<"api", "users", "1">>, <<"api", "products">>, <<"api", "orders">>}
ConcBodies == {""}
ConcConfigs ==
    {[users |-> UserURL, products |-> ProductURL], [users |-> EmptyURL, products |-> ProductURL]}

InitConc ==
    /\ serviceMap \in ConcConfigs
    /\ gwState = "starting"
    /\ reqs = [r \in ConcSlots |-> FreeSlot]
    /\ sawProxyError = FALSE
    /\ down = {}
    /\ NoBackend

ReceiveConc(r) == ReceiveOf(r, ConcMethods, ConcPaths, ConcBodies)

NextConc ==
    \/ Startup
    \/ \E r \in ConcSlots : ReceiveConc(r)
    \/ \E r \in ConcSlots : BackendAnswer(r)
    \/ \E r \in ConcSlots : ProxyError(r)
    \/ \E r \in ConcSlots : ProbeAnswer(r)
    \/ \E r \in ConcSlots : ProbeError(r)
    \/ \E r \in ConcSlots : Tick(r)
    \/ \E r \in ConcSlots : Close(r)
    \/ \E r \in ConcSlots : ClientDisconnect(r)
    \/ \E b \in ServiceNames : BackendDown(b)
    \/ \E b \in ServiceNames : BackendUp(b)
    \/ Signal

SpecConc == InitConc /\ [][NextConc]_vars

TypeOK ==
    /\ serviceMap \in Configs
    /\ gwState \in {"starting", "serving", "exited"}
    /\ sawProxyError \in BOOLEAN
    /\ down \subseteq ServiceNames
    /\ \A r \in Slots : reqs[r].st \in {"free", "proxying", "probing", "done", "aborted"}

\* ------------------------------------------------------------------ claims
\* a path the mux dispatches as it is: no empty segment but a trailing one, no ".."
Canonical(p) == \A i \in 1..Len(p) : p[i] # ".." /\ (p[i] = "" => i = Len(p))

\* the service token of a request path: the first segment after /api/
Token(p) == p[2]

\* a request the proxy handler forwards: on /api/S/..., S registered with a
\* URL the transport can send to, not a preflight
Forwardable(s) ==
    /\ s.st # "free"
    /\ s.method # "OPTIONS"
    /\ HasApiPrefix(s.path) /\ Canonical(s.path)
    /\ Token(s.path) \in DOMAIN serviceMap
    /\ Dialable(serviceMap[Token(s.path)])

ProxyCalls(s) == {i \in DOMAIN s.sent : s.sent[i].kind = "proxy"}

\* the sub-path P of /api/S/P as a path of its own ("/" when P is empty)
SubPath(p) == IF Len(p) > 2 THEN SubSeq(p, 3, Len(p)) ELSE <<"">>

CrudPath(p) ==
    /\ HasApiPrefix(p) /\ Canonical(p)
    /\ Token(p) \in ServiceNames
    /\ Len(p) = 2 \/ (Len(p) = 3 /\ p[3] # "")

\* C2: a gateway request to /api/users, /api/users/{id}, /api/products or
\* /api/products/{id} arrives at the backend on a path one of its registered
\* routes matches (the collection route or the item route), never on a path
\* the backend's mux answers with its default 404
C2_ProxiedPathMatchesBackendRoute ==
    \A r \in Slots :
        CrudPath(reqs[r].path) =>
            /\ \A i \in ProxyCalls(reqs[r]) :
                  BackendMux(Resource(reqs[r].sent[i].url), reqs[r].sent[i].path)
                     = (IF Len(reqs[r].path) = 2 THEN "collection" ELSE "item")
            /\ reqs[r].answer.kind = "answer" =>
                  /\ reqs[r].answer.route = (IF Len(reqs[r].path) = 2 THEN "collection" ELSE "item")
                  /\ reqs[r].resp.body # "404 page not found"

C2_Witness ==
    \E r \in Slots :
        /\ reqs[r].st = "done"
        /\ reqs[r].method = "GET"
        /\ reqs[r].path = <<"api", "products", "1">>
        /\ reqs[r].answer.kind = "answer"
        /\ reqs[r].answer.route = "item"
        /\ reqs[r].resp.status = StatusOK

\* C3: when the backend answers a proxied request the caller gets exactly the
\* backend's status code and body, whatever the status; the gateway puts
\* nothing of its own in place of a response the backend produced
C3_BackendResponseRelayedVerbatim ==
    \A r \in Slots :
        (reqs[r].st = "done" /\ reqs[r].answer.kind = "answer") =>
            /\ reqs[r].resp.status = reqs[r].answer.status
            /\ reqs[r].resp.body = reqs[r].answer.body
            /\ reqs[r].resp.from = "backend"

C3_Witness ==
    \E r \in Slots :
        /\ reqs[r].st = "done"
        /\ reqs[r].answer = [kind |-> "answer", route |-> "item",
                             status |-> StatusInternalServerError, body |-> "b2"]
        /\ reqs[r].resp.status = StatusInternalServerError
        /\ reqs[r].resp.body = "b2"

\* a request on /api/T/... whose token is no key of the registry
UnknownToken(s) ==
    /\ s.st # "free"
    /\ HasApiPrefix(s.path)
    /\ Token(s.path) \notin DOMAIN serviceMap

ServiceNotFound(s) ==
    /\ s.st = "done"
    /\ s.resp.status = StatusNotFound
    /\ s.resp.body = "Service not found"
    /\ s.sent = <<>>

\* C4 as stated: every request on /api/T/... with T not a key of the registry
\* is answered 404 "Service not found", and no backend is called
C4_UnknownServiceAlways404 ==
    \A r \in Slots : UnknownToken(reqs[r]) => ServiceNotFound(reqs[r])

\* C4 amended: every request other than OPTIONS on a canonical path /api/T/...
\* with T not a key of the registry is answered 404 "Service not found"; and
\* no request with such a token, whatever its method or path, reaches a backend
C4_UnknownService404 ==
    \A r \in Slots :
        UnknownToken(reqs[r]) =>
            /\ reqs[r].sent = <<>>
            /\ (reqs[r].method # "OPTIONS" /\ Canonical(reqs[r].path)) => ServiceNotFound(reqs[r])

C4_Witness ==
    \E r \in Slots :
        /\ reqs[r].method = "GET"
        /\ reqs[r].path = <<"api", "orders", "1">>
        /\ ServiceNotFound(reqs[r])
        /\ reqs[r].handler = "routeRequest"

ProbedOK(s, n) ==
    \E i \in DOMAIN s.probeLog :
        s.probeLog[i].name = n /\ ~s.probeLog[i].err /\ s.probeLog[i].code = StatusOK

\* C6: a health check reports "healthy" with 200 exactly when every registered
\* backend's probe returned 200 without error within the timeout, otherwise
\* "degraded" with 503; a backend is listed "unhealthy" exactly when its probe
\* errored or returned another status
C6_HealthAggregate ==
    \A r \in Slots :
        (reqs[r].st = "done" /\ reqs[r].handler = "healthCheck") =>
            /\ (\A n \in DOMAIN serviceMap : ProbedOK(reqs[r], n))
                  <=> (reqs[r].resp.body = "healthy" /\ reqs[r].resp.status = StatusOK)
            /\ ~(\A n \in DOMAIN serviceMap : ProbedOK(reqs[r], n))
                  <=> (reqs[r].resp.body = "degraded" /\ reqs[r].resp.status = StatusServiceUnavailable)
            /\ Len(reqs[r].services) = Len(reqs[r].probeLog)
            /\ \A i \in DOMAIN reqs[r].services :
                  /\ reqs[r].services[i].name = reqs[r].probeLog[i].name
                  /\ reqs[r].services[i].status \in {"healthy", "unhealthy"}
                  /\ reqs[r].services[i].status = "unhealthy"
                        <=> (reqs[r].probeLog[i].err \/ reqs[r].probeLog[i].code # StatusOK)

C6_Witness ==
    \E r \in Slots :
        /\ reqs[r].st = "done" /\ reqs[r].handler = "healthCheck"
        /\ reqs[r].resp.body = "degraded"
        /\ \E i, j \in DOMAIN reqs[r].services :
              /\ reqs[r].services[i].status = "healthy"
              /\ reqs[r].services[j].status = "unhealthy"
              /\ ~reqs[r].probeLog[j].err
              /\ reqs[r].probeLog[j].code = StatusServiceUnavailable

\* a request the mux hands to a registered handler
OnRoute(p) == Canonical(p) /\ (p = <<"health">> \/ HasApiPrefix(p))

\* C7: an OPTIONS request on a route of the gateway is answered 200 with the
\* CORS headers and no body, the wrapped handler is not invoked, and no
\* OPTIONS request at all makes the gateway call a backend
C7_PreflightShortCircuits ==
    \A r \in Slots :
        (reqs[r].st # "free" /\ reqs[r].method = "OPTIONS") =>
            /\ reqs[r].sent = <<>>
            /\ reqs[r].handler = "none"
            /\ OnRoute(reqs[r].path) =>
                  /\ reqs[r].st = "done"
                  /\ reqs[r].resp = [status |-> StatusOK, body |-> "", cors |-> TRUE, from |-> "cors"]

C7_Witness ==
    \E r \in Slots :
        /\ reqs[r].st = "done"
        /\ reqs[r].method = "OPTIONS"
        /\ reqs[r].path = <<"api", "users", "1">>
        /\ reqs[r].resp.status = StatusOK /\ reqs[r].resp.cors
        /\ reqs[r].sent = <<>>

\* C8: when the proxied call fails in the transport the caller gets 503
\* "Service unavailable" and the gateway is still serving
C8_UnreachableBackend503 ==
    \A r \in Slots :
        (reqs[r].st = "done" /\ reqs[r].answer.kind = "error") =>
            /\ reqs[r].resp.status = StatusServiceUnavailable
            /\ reqs[r].resp.body = "Service unavailable"
            /\ gwState = "serving"

\* a later request to the other service is served after a failed one
C8_Witness ==
    \E r \in Slots :
        /\ sawProxyError
        /\ gwState = "serving"
        /\ reqs[r].st = "done"
        /\ reqs[r].answer.kind = "answer"
        /\ reqs[r].resp.status = StatusOK

\* C9 as stated: every outbound call in flight, proxied or probe, carries a
\* timeout and is never waited on beyond it
C9_EveryCallHasTimeout ==
    \A r \in Slots :
        reqs[r].out.kind # "none" =>
            /\ reqs[r].out.timeout # NoTimeout
            /\ reqs[r].out.elapsed <= reqs[r].out.timeout

\* C10 as stated: a proxied call the backend answers with a status other
\* than 200 is seen by the caller as 503
C10_Non200Becomes503 ==
    \A r \in Slots :
        (reqs[r].st = "done" /\ reqs[r].answer.kind = "answer" /\ reqs[r].answer.status # StatusOK) =>
            reqs[r].resp.status = StatusServiceUnavailable

\* C10 amended: a proxied call the backend answers with a status other than
\* 200 is seen by the caller with that same status; the proxy handler's own
\* 503 "Service unavailable" appears only when the backend gave no answer
C10_Non200Relayed ==
    \A r \in Slots :
        (reqs[r].st = "done" /\ reqs[r].handler = "routeRequest") =>
            /\ (reqs[r].answer.kind = "answer" /\ reqs[r].answer.status # StatusOK) =>
                  (reqs[r].resp.status = reqs[r].answer.status /\ reqs[r].resp.status # StatusOK)
            /\ (reqs[r].resp.from = "gateway" /\ reqs[r].resp.status = StatusServiceUnavailable) =>
                  reqs[r].answer.kind # "answer"

C10_Witness ==
    \E r \in Slots :
        /\ reqs[r].st = "done"
        /\ reqs[r].handler = "routeRequest"
        /\ reqs[r].answer.kind = "answer"
        /\ reqs[r].answer.status = StatusMethodNotAllowed
        /\ reqs[r].resp.status = StatusMethodNotAllowed

\* C11 as stated: once the caller is gone, no backend call made on its behalf
\* is still in flight, for the proxied call and for the health probes alike
C11_DisconnectCancelsCall ==
    \A r \in Slots : reqs[r].client = "gone" => reqs[r].out.kind = "none"

\* C12: while some backend is unreachable or unhealthy, the health entry of
\* every other backend follows that backend's own probe alone, and a proxied
\* request for a reachable backend is still sent to it and its answer relayed
C12_FailureIsolated ==
    \A r \in DOMAIN reqs :
        /\ \A i, j \in DOMAIN reqs[r].services :
              (i # j /\ reqs[r].services[j].status = "unhealthy") =>
                  (reqs[r].services[i].status = "healthy"
                      <=> (~reqs[r].probeLog[i].err /\ reqs[r].probeLog[i].code = StatusOK))
        /\ (Forwardable(reqs[r]) /\ down # {} /\ Token(reqs[r].path) \notin down) =>
              /\ Len(reqs[r].sent) = 1
              /\ reqs[r].sent[1].url = serviceMap[Token(reqs[r].path)]
              /\ reqs[r].answer.kind = "answer" =>
                    (reqs[r].resp.status = reqs[r].answer.status /\ reqs[r].resp.from = "backend")

\* one request failed on the unreachable users backend while the other was
\* relayed from products; and a health report with one entry of each kind
C12_Witness ==
    /\ down = {"users"}
    /\ reqs[1].st = "done" /\ reqs[1].path = <<"api", "users", "1">>
    /\ reqs[1].answer.kind = "error"
    /\ reqs[2].st = "done" /\ reqs[2].path = <<"api", "products">>
    /\ reqs[2].answer.kind = "answer" /\ reqs[2].resp.status = StatusOK

\* C13: no step of the gateway, in any interleaving of proxied requests,
\* health checks and preflights, changes the registry, which keeps one URL
\* for each of its two names
C13_RegistryImmutable ==
    /\ [](DOMAIN serviceMap = ServiceNames)
    /\ [][serviceMap' = serviceMap]_vars

C13_Witness ==
    /\ sawProxyError
    /\ serviceMap = [users |-> UserURL, products |-> ProductURL]
    /\ reqs[1].st = "done" /\ reqs[1].handler = "healthCheck"
    /\ reqs[2].st = "done" /\ reqs[2].method = "OPTIONS"

\* C14 as stated: every response the gateway sends carries the CORS headers,
\* whichever handler or the mux itself produced it
C14_EveryResponseHasCors ==
    \A r \in Slots : reqs[r].st = "done" => reqs[r].resp.cors

\* C15 as stated: the gateway never serves with a registry entry that is empty
C15_NoServingWithEmptyURL ==
    gwState = "serving" => \A n \in DOMAIN serviceMap : serviceMap[n] # EmptyURL

\* C16 as stated: the process ends only after the requests that were in
\* flight have finished; none is cut off
C16_NoRequestCutOff ==
    \A r \in Slots : reqs[r].st # "aborted"

\* ------------------------------------------------------------------------
\* The backend services: user-service and product-service. Each is its own
\* process with its own database; proc says which one is under study.
\* ------------------------------------------------------------------------

\* the SERIAL sequences hand out ids up to here
MaxID == 2

\* strconv.ParseInt(id, 10, 32): the largest value of a 32-bit integer
Int32Max == 2147483647

Int32Min == (0 - Int32Max) - 1

DigitChars == <<"0", "1", "2", "3", "4", "5", "6", "7", "8", "9">>

IsDigit(c) == \E i \in 1..Len(DigitChars) : DigitChars[i] = c

DigitVal(c) == (CHOOSE i \in 1..Len(DigitChars) : DigitChars[i] = c) - 1

\* the digits of s accumulated as a negative number, so that the whole 32-bit
\* range fits; limit is the smallest value allowed
RECURSIVE Accumulate(_, _, _)
Accumulate(ds, acc, limit) ==
    IF ds = <<>> THEN [err |-> FALSE, val |-> acc]
    ELSE IF ~IsDigit(Head(ds)) THEN [err |-> TRUE, val |-> 0]
    ELSE IF acc < (limit + DigitVal(Head(ds)) + 9) \div 10 THEN [err |-> TRUE, val |-> 0]
    ELSE Accumulate(Tail(ds), acc * 10 - DigitVal(Head(ds)), limit)

\* mutant: parsed as a 64-bit integer and converted with int32(), so the first
\* value past the range wraps around instead of being refused
ParseIntTruncating(s) ==
    IF s = <<>> THEN [err |-> TRUE, val |-> 0]
    ELSE LET neg == Head(s) = "-"
             ds  == IF Head(s) \in {"+", "-"} THEN Tail(s) ELSE s
             n   == Accumulate(ds, 0, Int32Min)
         IN  IF ds = <<>> \/ n.err THEN [err |-> TRUE, val |-> 0]
             ELSE [err |-> FALSE,
                   val |-> IF neg \/ n.val = Int32Min THEN n.val ELSE 0 - n.val]

\* strconv.ParseInt(s, 10, 32) on the characters of s: an optional sign, then
\* digits; a syntax error or a value outside 32 bits is an error
ParseInt(s) ==
    IF s = <<>> THEN [err |-> TRUE, val |-> 0]
    ELSE LET neg == Head(s) = "-"
             ds  == IF Head(s) \in {"+", "-"} THEN Tail(s) ELSE s
             n   == Accumulate(ds, 0, IF neg THEN Int32Min ELSE 0 - Int32Max)
         IN  IF ds = <<>> \/ n.err THEN [err |-> TRUE, val |-> 0]
             ELSE [err |-> FALSE, val |-> IF neg THEN n.val ELSE 0 - n.val]

\* the {id} segment of a request, character by character
IdTokens ==
    {<<"1">>, <<"x">>, <<"-", "1">>,
     <<"2", "1", "4", "7", "4", "8", "3", "6", "4", "8">>}

\* a field of a JSON body: present with a value, or missing
Opt(S, zero) == {[present |-> FALSE, v |-> zero]} \cup [present : {TRUE}, v : S]

\* encoding/json leaves a missing field at its Go zero value
ZeroValue(f, zero) == IF f.present THEN f.v ELSE zero

UserBodies ==
    {[wf |-> FALSE, name |-> [present |-> FALSE, v |-> ""],
      email |-> [present |-> FALSE, v |-> ""]]}
    \cup [wf : {TRUE}, name : Opt({"ann"}, ""), email : Opt({"a@x", "b@x"}, "")]

\* json.NewDecoder(r.Body).Decode(&input) into struct{Name, Email string}
DecodeUser(b) ==
    IF ~b.wf THEN [err |-> TRUE, name |-> "", email |-> ""]
    ELSE [err |-> FALSE, name |-> ZeroValue(b.name, ""), email |-> ZeroValue(b.email, "")]

\* prices of request bodies, in thousandths
PriceInputs == {4, 1999}

StockInputs == {0 - 1, 0}

ProductBodies ==
    {[wf |-> FALSE, price |-> [present |-> FALSE, v |-> 0],
      stock |-> [present |-> FALSE, v |-> 0]]}
    \cup [wf : {TRUE}, price : Opt(PriceInputs, 0), stock : Opt(StockInputs, 0)]

\* Decode into struct{...; Price float64; Stock int32}
DecodeProduct(b) ==
    IF ~b.wf THEN [err |-> TRUE, price |-> 0, stock |-> 0]
    ELSE [err |-> FALSE, price |-> ZeroValue(b.price, 0), stock |-> ZeroValue(b.stock, 0)]

\* strconv.FormatFloat(price, 'f', 2, 64): thousandths rounded to the nearest
\* hundredth, the DECIMAL(10, 2) the column stores
FormatFloat(m) == (m + 5) \div 10

RowsWithID(table, id) == {row \in table : row.id = id}

QueryError(table, seq, what) ==
    [err |-> TRUE, msg |-> what, rows |-> {}, table |-> table, seq |-> seq]

QueryOK(rows, table, seq) ==
    [err |-> FALSE, msg |-> "", rows |-> rows, table |-> table, seq |-> seq]

\* ---- user-service repository
Repository_ListUsers(ok, table, seq) ==
    IF ~ok THEN QueryError(table, seq, "could not list users")
    ELSE QueryOK(table, table, seq)

\* INSERT INTO users ... RETURNING: email is UNIQUE; the id comes from the
\* sequence, which moves on even when the insert fails
Repository_CreateUser(ok, table, seq, name, email) ==
    IF ~ok THEN QueryError(table, seq, "could not create user")
    ELSE IF \E u \in table : u.email = email
         THEN QueryError(table, seq + 1, "could not create user")
    ELSE LET row == [id |-> seq + 1, name |-> name, email |-> email]
         IN  QueryOK({row}, table \cup {row}, seq + 1)

\* SELECT ... WHERE id = $1 as :one, no row is sql.ErrNoRows
Repository_GetUser(ok, table, seq, id) ==
    IF ~ok \/ RowsWithID(table, id) = {} THEN QueryError(table, seq, "could not get user")
    ELSE QueryOK(RowsWithID(table, id), table, seq)

\* UPDATE ... WHERE id = $1 RETURNING as :one
Repository_UpdateUser(ok, table, seq, id, name, email) ==
    IF \/ ~ok
       \/ RowsWithID(table, id) = {}
       \/ \E u \in table : u.id # id /\ u.email = email
    THEN QueryError(table, seq, "could not update user")
    ELSE LET row == [id |-> id, name |-> name, email |-> email]
         IN  QueryOK({row}, (table \ RowsWithID(table, id)) \cup {row}, seq)

Repository_DeleteUserStrict(ok, table, seq, id) ==
    IF ~ok \/ RowsWithID(table, id) = {} THEN QueryError(table, seq, "could not delete user")
    ELSE QueryOK({}, table \ RowsWithID(table, id), seq)

\* DELETE FROM users WHERE id = $1 as :exec, deleting no row is no error
Repository_DeleteUser(ok, table, seq, id) ==
    IF ~ok THEN QueryError(table, seq, "could not delete user")
    ELSE QueryOK({}, table \ RowsWithID(table, id), seq)

\* ---- product-service repository
Repository_ListProducts(ok, table, seq) ==
    IF ~ok THEN QueryError(table, seq, "could not list products")
    ELSE QueryOK(table, table, seq)

Repository_CreateProduct(ok, table, seq, price, stock) ==
    IF ~ok THEN QueryError(table, seq, "could not create product")
    ELSE LET row == [id |-> seq + 1, price |-> price, stock |-> stock]
         IN  QueryOK({row}, table \cup {row}, seq + 1)

Repository_GetProduct(ok, table, seq, id) ==
    IF ~ok \/ RowsWithID(table, id) = {} THEN QueryError(table, seq, "could not get product")
    ELSE QueryOK(RowsWithID(table, id), table, seq)

Repository_UpdateProduct(ok, table, seq, id, price, stock) ==
    IF ~ok \/ RowsWithID(table, id) = {} THEN QueryError(table, seq, "could not update product")
    ELSE LET row == [id |-> id, price |-> price, stock |-> stock]
         IN  QueryOK({row}, (table \ RowsWithID(table, id)) \cup {row}, seq)

Repository_DeleteProduct(ok, table, seq, id) ==
    IF ~ok THEN QueryError(table, seq, "could not delete product")
    ELSE QueryOK({}, table \ RowsWithID(table, id), seq)

\* ---- handlers
\* what the handler wrote: status, http.Error's message, the rows it encoded
Handled(op, id, in, pre, status, msg, rows) ==
    [op |-> op, id |-> id, in |-> in, dbOK |-> dbOK, pre |-> pre,
     status |-> status, msg |-> msg, rows |-> rows]

NoInput == ""

\* the handler's tail: 500 with the error's text, or the success status
Outcome(op, id, in, pre, res, success) ==
    IF res.err THEN Handled(op, id, in, pre, StatusInternalServerError, res.msg, {})
    ELSE Handled(op, id, in, pre, success, "", res.rows)

UserReply(h, res) ==
    /\ hist' = h
    /\ users' = res.table
    /\ userSeq' = res.seq
    /\ UNCHANGED <<proc, dbOK, products, productSeq, gwVars, life>>

ProductReply(h, res) ==
    /\ hist' = h
    /\ products' = res.table
    /\ productSeq' = res.seq
    /\ UNCHANGED <<proc, dbOK, users, userSeq, gwVars, life>>

ListUsers ==
    /\ proc = "user-service"
    /\ LET res == Repository_ListUsers(dbOK, users, userSeq)
       IN  UserReply(Outcome("ListUsers", <<>>, NoInput, users, res, StatusOK), res)

CreateUser ==
    /\ proc = "user-service"
    /\ userSeq < MaxID
    /\ \E b \in UserBodies :
          LET input == DecodeUser(b)
              res   == Repository_CreateUser(dbOK, users, userSeq, input.name, input.email)
          IN  IF input.err
              THEN UserReply(Handled("CreateUser", <<>>, b, users, StatusBadRequest,
                                     "name and email are required", {}),
                             QueryOK({}, users, userSeq))
              ELSE UserReply(Outcome("CreateUser", <<>>, b, users, res, StatusCreated), res)

UpdateUser ==
    /\ proc = "user-service"
    /\ \E id \in IdTokens, b \in UserBodies :
          LET idInt == ParseInt(id)
              input == DecodeUser(b)
              res   == Repository_UpdateUser(dbOK, users, userSeq, idInt.val,
                                             input.name, input.email)
              same  == QueryOK({}, users, userSeq)
          IN  IF id = <<>>
              THEN UserReply(Handled("UpdateUser", id, b, users, StatusBadRequest,
                                     "id is required", {}), same)
              ELSE IF idInt.err
              THEN UserReply(Handled("UpdateUser", id, b, users, StatusBadRequest,
                                     "id must be an integer", {}), same)
              ELSE IF input.err
              THEN UserReply(Handled("UpdateUser", id, b, users, StatusBadRequest,
                                     "name, email are required", {}), same)
              ELSE UserReply(Outcome("UpdateUser", id, b, users, res, StatusOK), res)

DeleteUser ==
    /\ proc = "user-service"
    /\ \E id \in IdTokens :
          LET idInt == ParseInt(id)
              res   == Repository_DeleteUser(dbOK, users, userSeq, idInt.val)
              same  == QueryOK({}, users, userSeq)
          IN  IF id = <<>>
              THEN UserReply(Handled("DeleteUser", id, NoInput, users, StatusBadRequest,
                                     "id is required", {}), same)
              ELSE IF idInt.err
              THEN UserReply(Handled("DeleteUser", id, NoInput, users, StatusBadRequest,
                                     "id must be an integer", {}), same)
              ELSE UserReply(Outcome("DeleteUser", id, NoInput, users, res, StatusNoContent), res)

GetUser ==
    /\ proc = "user-service"
    /\ \E id \in IdTokens :
          LET idInt == ParseInt(id)
              res   == Repository_GetUser(dbOK, users, userSeq, idInt.val)
              same  == QueryOK({}, users, userSeq)
          IN  IF id = <<>>
              THEN UserReply(Handled("GetUser", id, NoInput, users, StatusBadRequest,
                                     "id is required", {}), same)
              ELSE IF idInt.err
              THEN UserReply(Handled("GetUser", id, NoInput, users, StatusBadRequest,
                                     "id must be an integer", {}), same)
              ELSE UserReply(Outcome("GetUser", id, NoInput, users, res, StatusOK), res)

ListProducts ==
    /\ proc = "product-service"
    /\ LET res == Repository_ListProducts(dbOK, products, productSeq)
       IN  ProductReply(Outcome("ListProducts", <<>>, NoInput, products, res, StatusOK), res)

CreateProduct ==
    /\ proc = "product-service"
    /\ productSeq < MaxID
    /\ \E b \in ProductBodies :
          LET input    == DecodeProduct(b)
              priceStr == FormatFloat(input.price)
              res      == Repository_CreateProduct(dbOK, products, productSeq,
                                                   priceStr, input.stock)
          IN  IF input.err
              THEN ProductReply(Handled("CreateProduct", <<>>, b, products, StatusBadRequest,
                                        "name, description, price, and stock are required", {}),
                                QueryOK({}, products, productSeq))
              ELSE ProductReply(Outcome("CreateProduct", <<>>, b, products, res, StatusCreated),
                                res)

UpdateProduct ==
    /\ proc = "product-service"
    /\ \E id \in IdTokens, b \in ProductBodies :
          LET idInt    == ParseInt(id)
              input    == DecodeProduct(b)
              priceStr == FormatFloat(input.price)
              res      == Repository_UpdateProduct(dbOK, products, productSeq, idInt.val,
                                                   priceStr, input.stock)
              same     == QueryOK({}, products, productSeq)
          IN  IF id = <<>>
              THEN ProductReply(Handled("UpdateProduct", id, b, products, StatusBadRequest,
                                        "id is required", {}), same)
              ELSE IF idInt.err
              THEN ProductReply(Handled("UpdateProduct", id, b, products, StatusBadRequest,
                                        "id must be an integer", {}), same)
              ELSE IF input.err
              THEN ProductReply(Handled("UpdateProduct", id, b, products, StatusBadRequest,
                                        "name, description, price, and stock are required", {}),
                                same)
              ELSE ProductReply(Outcome("UpdateProduct", id, b, products, res, StatusOK), res)

DeleteProduct ==
    /\ proc = "product-service"
    /\ \E id \in IdTokens :
          LET idInt == ParseInt(id)
              res   == Repository_DeleteProduct(dbOK, products, productSeq, idInt.val)
              same  == QueryOK({}, products, productSeq)
          IN  IF id = <<>>
              THEN ProductReply(Handled("DeleteProduct", id, NoInput, products, StatusBadRequest,
                                        "id is required", {}), same)
              ELSE IF idInt.err
              THEN ProductReply(Handled("DeleteProduct", id, NoInput, products, StatusBadRequest,
                                        "id must be an integer", {}), same)
              ELSE ProductReply(Outcome("DeleteProduct", id, NoInput, products, res,
                                        StatusNoContent), res)

GetProduct ==
    /\ proc = "product-service"
    /\ \E id \in IdTokens :
          LET idInt == ParseInt(id)
              res   == Repository_GetProduct(dbOK, products, productSeq, idInt.val)
              same  == QueryOK({}, products, productSeq)
          IN  IF id = <<>>
              THEN ProductReply(Handled("GetProduct", id, NoInput, products, StatusBadRequest,
                                        "id is required", {}), same)
              ELSE IF idInt.err
              THEN ProductReply(Handled("GetProduct", id, NoInput, products, StatusBadRequest,
                                        "id must be an integer", {}), same)
              ELSE ProductReply(Outcome("GetProduct", id, NoInput, products, res, StatusOK), res)

\* the database becomes unreachable, or reachable again
DbDown ==
    /\ proc # "gateway"
    /\ dbOK
    /\ dbOK' = FALSE
    /\ UNCHANGED <<proc, users, userSeq, products, productSeq, hist, gwVars, life>>

DbUp ==
    /\ proc # "gateway"
    /\ ~dbOK
    /\ dbOK' = TRUE
    /\ UNCHANGED <<proc, users, userSeq, products, productSeq, hist, gwVars, life>>

\* a backend service after its migrations ran: empty tables, a reachable
\* database; the gateway is not part of this process
InitCrud ==
    /\ proc \in {"user-service", "product-service"}
    /\ dbOK = TRUE
    /\ users = {}
    /\ userSeq = 0
    /\ products = {}
    /\ productSeq = 0
    /\ hist = NoHist
    /\ life = NoLife
    /\ serviceMap = [n \in ServiceNames |-> EmptyURL]
    /\ gwState = "exited"
    /\ reqs = [r \in Slots |-> FreeSlot]
    /\ sawProxyError = FALSE
    /\ down = {}

NextCrud ==
    \/ ListUsers
    \/ CreateUser
    \/ GetUser
    \/ UpdateUser
    \/ DeleteUser
    \/ ListProducts
    \/ CreateProduct
    \/ GetProduct
    \/ UpdateProduct
    \/ DeleteProduct
    \/ DbDown
    \/ DbUp

SpecCrud == InitCrud /\ [][NextCrud]_vars

\* ---- what a handled request was about
IdOf(h) == ParseInt(h.id).val

ValidID(h) == h.id # <<>> /\ ~ParseInt(h.id).err

\* C17: GET /users/{id} and GET /products/{id} with an integer id and a working
\* database answer 404 when no row has that id, and 200 with the row when one has
C17_MissingRowIs404 ==
    (hist.op \in {"GetUser", "GetProduct"} /\ ValidID(hist) /\ hist.dbOK) =>
        IF RowsWithID(hist.pre, IdOf(hist)) = {}
        THEN hist.status = StatusNotFound
        ELSE hist.status = StatusOK /\ hist.rows = RowsWithID(hist.pre, IdOf(hist))

\* C18: no stored product has a negative stock or a price <= 0, and a create or
\* update whose body carries stock < 0 or price <= 0 is rejected and leaves the
\* stored products as they were
C18_StockAndPriceValid ==
    /\ \A p \in products : p.stock >= 0 /\ p.price > 0
    /\ (/\ hist.op \in {"CreateProduct", "UpdateProduct"}
        /\ hist.in.wf
        /\ (DecodeProduct(hist.in).stock < 0 \/ DecodeProduct(hist.in).price <= 0)) =>
            (hist.status = StatusBadRequest /\ products = hist.pre)

\* C19: POST /users with a body lacking name or email is answered 400 "name and
\* email are required" and creates no user; 201 only when both are present
C19_MissingFieldsRejected ==
    hist.op = "CreateUser" =>
        /\ (~hist.in.name.present \/ ~hist.in.email.present) =>
              /\ hist.status = StatusBadRequest
              /\ hist.msg = "name and email are required"
              /\ users = hist.pre
        /\ hist.status = StatusCreated => (hist.in.name.present /\ hist.in.email.present)

\* C20: DELETE /users/{id} and DELETE /products/{id} with a valid integer id and
\* a working database answer 204 with no body, afterwards no row has that id,
\* no other row is touched, and a delete that finds no row (a repeated delete)
\* answers 204 again and changes nothing
C20_DeleteIdempotent ==
    (hist.op \in {"DeleteUser", "DeleteProduct"} /\ ValidID(hist) /\ hist.dbOK) =>
        LET table == IF hist.op = "DeleteUser" THEN users ELSE products
        IN  /\ hist.status = StatusNoContent
            /\ hist.msg = ""
            /\ hist.rows = {}
            /\ RowsWithID(table, IdOf(hist)) = {}
            /\ table = hist.pre \ RowsWithID(hist.pre, IdOf(hist))
            /\ RowsWithID(hist.pre, IdOf(hist)) = {} => table = hist.pre

\* the delete of user 1 repeated after the row is gone, another user stored
C20_Witness ==
    /\ hist.op = "DeleteUser"
    /\ hist.id = <<"1">>
    /\ hist.dbOK
    /\ userSeq >= 1
    /\ RowsWithID(hist.pre, 1) = {}
    /\ hist.pre # {}
    /\ hist.status = StatusNoContent

\* ---- claims about the gateway, continued
\* a request the gateway answered itself with a routing rejection
RoutingRejected(s) ==
    /\ s.st = "done"
    /\ s.resp.status = StatusNotFound
    /\ s.resp.from \in {"gateway", "mux"}

SameRequest(a, b) ==
    /\ a.st # "free" /\ b.st # "free"
    /\ a.method = b.method /\ a.path = b.path /\ a.body = b.body

UnparsableTarget(s) ==
    /\ s.st # "free"
    /\ s.method # "OPTIONS"
    /\ HasApiPrefix(s.path) /\ Canonical(s.path)
    /\ Token(s.path) \in DOMAIN serviceMap
    /\ ~ParseOK(serviceMap[Token(s.path)])

\* C23: when the base URL stored for the requested service cannot be parsed,
\* the gateway answers 404 (body "Invalid URL") and makes no backend call
C23_UnparsableURL404 ==
    \A r \in Slots :
        UnparsableTarget(reqs[r]) =>
            /\ reqs[r].st = "done"
            /\ reqs[r].resp.status = StatusNotFound
            /\ reqs[r].resp.body = "Invalid URL"
            /\ reqs[r].resp.from = "gateway"
            /\ reqs[r].sent = <<>>
            /\ reqs[r].answer = NoAnswer

C23_Witness ==
    /\ serviceMap["products"] = BadURL
    /\ reqs[1].st = "done"
    /\ reqs[1].method = "PUT"
    /\ reqs[1].path = <<"api", "products", "1">>
    /\ reqs[1].handler = "routeRequest"
    /\ reqs[1].resp.status = StatusNotFound

\* ------------------------------------------------------------------------
\* The gateway in front of one backend whose database comes and goes: the
\* probes of that backend are answered by its healthHandler; the other
\* backend answers as it pleases.
\* ------------------------------------------------------------------------

\* mutant: the status line is never set, a failed ping is reported under 200
healthHandlerNoWriteHeader(ok) ==
    IF ok THEN [status |-> StatusOK, msg |-> "ok"]
    ELSE [status |-> StatusOK, msg |-> "db_unreachable"]

\* healthHandler: db.Ping() decides between 200 "ok" and 503 "db_unreachable";
\* the method is not looked at
healthHandler(ok) ==
    IF ok THEN [status |-> StatusOK, msg |-> "ok"]
    ELSE [status |-> StatusServiceUnavailable, msg |-> "db_unreachable"]

\* the registry key under which the gateway knows a backend process
Served(p) == IF p = "user-service" THEN "users" ELSE "products"

HealthMethods == {"GET", "OPTIONS"}

HealthPaths == {<<"health">>, <<"api", "users", "1">>, <<"api", "products", "health">>}

InitHealth ==
    /\ serviceMap \in Configs
    /\ gwState = "starting"
    /\ reqs = [r \in Slots |-> FreeSlot]
    /\ sawProxyError = FALSE
    /\ down = {}
    /\ proc \in {"user-service", "product-service"}
    /\ dbOK = TRUE
    /\ users = {}
    /\ userSeq = 0
    /\ products = {}
    /\ productSeq = 0
    /\ hist = NoHist
    /\ life = NoLife

ReceiveHealth(r) == ReceiveOf(r, HealthMethods, HealthPaths, ConcBodies)

\* the backend under study answers the gateway's probe: its healthHandler
\* pings the database and the gateway records what it got
ProbeHandled(r) ==
    /\ gwState = "serving"
    /\ reqs[r].out.kind = "probe"
    /\ reqs[r].out.svc = Served(proc)
    /\ reqs[r].out.elapsed < reqs[r].out.timeout
    /\ LET h == healthHandler(dbOK)
       IN  /\ hist' = Handled("healthHandler", <<>>, NoInput, {}, h.status, h.msg, {})
           /\ \E s \in HealthLoop(serviceMap,
                                  RecordProbe(serviceMap, reqs[r], reqs[r].out.svc, FALSE, h.status)) :
                 reqs' = [reqs EXCEPT ![r] = s]
    /\ UNCHANGED <<serviceMap, gwState, sawProxyError, down,
                   proc, dbOK, users, userSeq, products, productSeq, life>>

\* the other backend answers a probe
ProbeAnswerOther(r) ==
    /\ reqs[r].out.svc # Served(proc)
    /\ ProbeAnswer(r)

NextHealth ==
    \/ Startup
    \/ \E r \in Slots : ReceiveHealth(r)
    \/ \E r \in Slots : BackendAnswer(r)
    \/ \E r \in Slots : ProxyError(r)
    \/ \E r \in Slots : ProbeHandled(r)
    \/ \E r \in Slots : ProbeAnswerOther(r)
    \/ \E r \in Slots : ProbeError(r)
    \/ \E r \in Slots : Tick(r)
    \/ \E r \in Slots : Close(r)
    \/ \E r \in Slots : ClientDisconnect(r)
    \/ DbDown
    \/ DbUp
    \/ Signal

SpecHealth == InitHealth /\ [][NextHealth]_vars

MaxInflight == 2

\* context.WithTimeout(context.Background(), 5*time.Second)
ShutdownDeadline == 5

\* what the process finds when it starts: DATABASE_URL, the database, the
\* migrations directory against the schema, the port
Environments ==
    [dbURL : {"set", "unset"}, db : {"up", "down"},
     migration : {"applied", "nochange", "failed"}, port : {"free", "busy"}]

\* log.Fatal / log.Fatalf, os.Exit, or main returning: the process is gone
Exited(l, how) == [l EXCEPT !.phase = "exited", !.listening = FALSE, !.exit = how]

InitLife ==
    /\ proc \in {"user-service", "product-service"}
    /\ \E e \in Environments : life = [NoLife EXCEPT !.phase = "init", !.env = e]
    /\ dbOK = TRUE
    /\ users = {}
    /\ userSeq = 0
    /\ products = {}
    /\ productSeq = 0
    /\ hist = NoHist
    /\ serviceMap = [n \in ServiceNames |-> EmptyURL]
    /\ gwState = "exited"
    /\ reqs = [r \in Slots |-> FreeSlot]
    /\ sawProxyError = FALSE
    /\ down = {}

\* db.Connect: DATABASE_URL must be set and sqlx.Connect (open and ping) must
\* succeed, else main ends in log.Fatal
Connect ==
    /\ life.phase = "init"
    /\ life' = IF life.env.dbURL = "unset" \/ life.env.db = "down"
               THEN Exited(life, "fatal:connect")
               ELSE [life EXCEPT !.phase = "connected"]
    /\ UNCHANGED <<gwVars, crudVars>>

\* mutant: the error of db.Migrate is logged and main goes on
MigrateIgnoreError ==
    /\ life.phase = "connected"
    /\ life' = [life EXCEPT !.phase = "migrated"]
    /\ UNCHANGED <<gwVars, crudVars>>

\* db.Migrate: m.Up() with migrate.ErrNoChange counted as success, any other
\* error ends main in log.Fatal
Migrate ==
    /\ life.phase = "connected"
    /\ life' = IF life.env.migration = "failed"
               THEN Exited(life, "fatal:migrate")
               ELSE [life EXCEPT !.phase = "migrated"]
    /\ UNCHANGED <<gwVars, crudVars>>

\* the routes are registered, signal.Notify is armed and the goroutine that
\* will call server.ListenAndServe is started; main waits on the stop channel
Serve ==
    /\ life.phase = "migrated"
    /\ life' = [life EXCEPT !.phase = "running"]
    /\ UNCHANGED <<gwVars, crudVars>>

\* the goroutine calls server.ListenAndServe: the port is bound, or the error
\* ends the process in log.Fatalf; called after Shutdown it returns
\* http.ErrServerClosed, which is ignored
ListenAndServe ==
    /\ life.phase \in {"running", "shutting"}
    /\ ~life.bound
    /\ life' = IF life.phase = "shutting" THEN [life EXCEPT !.bound = TRUE]
               ELSE IF life.env.port = "busy" THEN Exited(life, "fatal:listen")
               ELSE [life EXCEPT !.bound = TRUE, !.listening = TRUE]
    /\ UNCHANGED <<gwVars, crudVars>>

\* a connection is accepted and its request starts to be handled
Accept ==
    /\ life.listening
    /\ life.inflight < MaxInflight
    /\ life' = [life EXCEPT !.inflight = @ + 1, !.accepted = TRUE, !.late = @ \/ life.sig]
    /\ UNCHANGED <<gwVars, crudVars>>

\* a handler returns
Finish ==
    /\ life.phase \in {"running", "shutting"}
    /\ life.inflight > 0
    /\ life' = [life EXCEPT !.inflight = @ - 1]
    /\ UNCHANGED <<gwVars, crudVars>>

\* SIGINT or SIGTERM before signal.Notify is armed: the Go runtime's default,
\* the process dies of the signal
KilledBySignal ==
    /\ life.phase \in {"init", "connected", "migrated"}
    /\ life' = Exited([life EXCEPT !.sig = TRUE], "signal")
    /\ UNCHANGED <<gwVars, crudVars>>

\* SIGINT or SIGTERM once signal.Notify is armed: it is put on the stop channel
StopSignal ==
    /\ life.phase = "running"
    /\ ~life.sig
    /\ life' = [life EXCEPT !.sig = TRUE]
    /\ UNCHANGED <<gwVars, crudVars>>

\* main receives from stop and calls server.Shutdown(ctx): the listener is
\* closed and the deadline starts to run
Shutdown ==
    /\ life.phase = "running"
    /\ life.sig
    /\ life' = [life EXCEPT !.phase = "shutting", !.listening = FALSE, !.clock = 0]
    /\ UNCHANGED <<gwVars, crudVars>>

\* a second of the shutdown deadline passes
TickShutdown ==
    /\ life.phase = "shutting"
    /\ life.clock < ShutdownDeadline
    /\ life' = [life EXCEPT !.clock = @ + 1]
    /\ UNCHANGED <<gwVars, crudVars>>

\* Shutdown finds every connection idle and returns nil: main returns
ShutdownReturns ==
    /\ life.phase = "shutting"
    /\ life.inflight = 0
    /\ life' = Exited(life, "ok")
    /\ UNCHANGED <<gwVars, crudVars>>

\* mutant: Shutdown is given a context without deadline
ShutdownNoDeadline ==
    /\ life.phase = "shutting"
    /\ life.clock > ShutdownDeadline
    /\ life' = Exited(life, "fatal:shutdown")
    /\ UNCHANGED <<gwVars, crudVars>>

\* the context's deadline passes first: Shutdown returns its error and main
\* ends in log.Fatalf, requests still in flight are cut off
ShutdownDeadlineExceeded ==
    /\ life.phase = "shutting"
    /\ life.clock = ShutdownDeadline
    /\ life' = Exited(life, "fatal:shutdown")
    /\ UNCHANGED <<gwVars, crudVars>>

NextLife ==
    \/ Connect
    \/ Migrate
    \/ Serve
    \/ ListenAndServe
    \/ Accept
    \/ Finish
    \/ KilledBySignal
    \/ StopSignal
    \/ Shutdown
    \/ TickShutdown
    \/ ShutdownReturns
    \/ ShutdownDeadlineExceeded

SpecLife == InitLife /\ [][NextLife]_vars

\* main is scheduled once the signal is on its channel, time passes, and
\* Shutdown returns when it can; handlers are not obliged to finish
SpecLifeFair ==
    /\ InitLife
    /\ [][NextLife]_vars
    /\ WF_vars(Shutdown)
    /\ WF_vars(TickShutdown)
    /\ WF_vars(ShutdownReturns)
    /\ WF_vars(ShutdownDeadlineExceeded)

\* C25: after SIGINT/SIGTERM a backend stops accepting connections and
\* eventually terminates; from Shutdown on nothing is accepted; it exits
\* normally only with no request left in flight, and a fatal exit out of
\* Shutdown comes only with the 5-second deadline
C25_TerminatesAfterSignal ==
    /\ life.sig ~> (life.phase = "exited")
    /\ life.sig ~> ~life.listening
    /\ [](life.phase \in {"shutting", "exited"} => ~life.listening)
    /\ []((life.phase = "exited" /\ life.exit = "ok") => (life.sig /\ life.inflight = 0))
    /\ []((life.phase = "exited" /\ life.exit = "fatal:shutdown") =>
              (life.sig /\ life.clock = ShutdownDeadline))
    /\ []((life.phase = "shutting" /\ life.inflight > 0 /\ life.clock = ShutdownDeadline) =>
              life.exit = "none")

\* the deadline passed with a request that never finished
C25_Witness ==
    /\ life.phase = "exited"
    /\ life.sig
    /\ life.exit = "fatal:shutdown"
    /\ life.inflight > 0
    /\ life.clock = ShutdownDeadline

\* what the process found was good enough to start
GoodStart(e) == e.dbURL = "set" /\ e.db = "up" /\ e.migration # "failed"

\* C26: a backend listens only after the database connection succeeded and the
\* migrations completed or reported no change; with DATABASE_URL unset, a
\* failed connection or a failed migration the process never gets past that
\* step and never serves a request
C26_ServesOnlyAfterMigrations ==
    /\ (life.listening \/ life.bound \/ life.accepted \/ life.inflight > 0) => GoodStart(life.env)
    /\ life.phase \in {"migrated", "running", "shutting"} => GoodStart(life.env)
    /\ (life.env.dbURL = "unset" \/ life.env.db = "down") =>
          (life.phase = "init" \/ (life.phase = "exited" /\ life.exit \in {"fatal:connect", "signal"}))
    /\ (life.phase = "exited" /\ life.exit = "fatal:migrate") => life.env.migration = "failed"

\* the migration failed and the process is gone without having listened
C26_Witness ==
    /\ life.env.dbURL = "set" /\ life.env.db = "up" /\ life.env.migration = "failed"
    /\ life.phase = "exited"
    /\ life.exit = "fatal:migrate"
    /\ ~life.accepted /\ ~life.bound

\* ---- claims about the backend handlers, continued
\* the decimal digits of the largest 32-bit magnitudes
MaxDigits == <<"2", "1", "4", "7", "4", "8", "3", "6", "4", "7">>

MinDigits == <<"2", "1", "4", "7", "4", "8", "3", "6", "4", "8">>

RECURSIVE StripZeros(_)
StripZeros(ds) == IF Len(ds) > 1 /\ Head(ds) = "0" THEN StripZeros(Tail(ds)) ELSE ds

\* a <= b for two digit strings of the same length
RECURSIVE DigitsLeq(_, _)
DigitsLeq(a, b) ==
    IF a = <<>> THEN TRUE
    ELSE IF DigitVal(Head(a)) # DigitVal(Head(b)) THEN DigitVal(Head(a)) < DigitVal(Head(b))
    ELSE DigitsLeq(Tail(a), Tail(b))

\* the text of a base-10 integer within the signed 32-bit range, decided on
\* the digits alone
DecimalInt32(tok) ==
    /\ tok # <<>>
    /\ LET neg == Head(tok) = "-"
           ds  == IF Head(tok) \in {"+", "-"} THEN Tail(tok) ELSE tok
           sig == StripZeros(ds)
       IN  /\ ds # <<>>
           /\ \A i \in DOMAIN ds : IsDigit(ds[i])
           /\ \/ Len(sig) < Len(MaxDigits)
              \/ Len(sig) = Len(MaxDigits) /\ DigitsLeq(sig, IF neg THEN MinDigits ELSE MaxDigits)

ItemOps == {"GetUser", "UpdateUser", "DeleteUser", "GetProduct", "UpdateProduct", "DeleteProduct"}

TableOf(op) == IF op \in {"GetUser", "UpdateUser", "DeleteUser"} THEN users ELSE products

\* C27: in Get, Update and Delete of users and products, an id that is not a
\* base-10 integer within the signed 32-bit range is answered 400 "id must be
\* an integer" without the repository being asked (also with the database
\* down) and with the stored rows unchanged; an id the repository is asked
\* about is the very integer the path carried
C27_BadIdRejected ==
    hist.op \in ItemOps =>
        /\ (hist.id # <<>> /\ ~DecimalInt32(hist.id)) =>
              /\ hist.status = StatusBadRequest
              /\ hist.msg = "id must be an integer"
              /\ hist.rows = {}
              /\ TableOf(hist.op) = hist.pre
        /\ DecimalInt32(hist.id) =>
              /\ ~ParseInt(hist.id).err
              /\ hist.msg # "id must be an integer"
              /\ \A row \in hist.rows : row.id = ParseInt(hist.id).val
              /\ \A row \in hist.pre \ TableOf(hist.op) : row.id = ParseInt(hist.id).val

\* an update with the first id past the 32-bit range, the database down and a
\* row stored
C27_Witness ==
    /\ hist.op = "UpdateUser"
    /\ hist.id = MinDigits
    /\ ~hist.dbOK
    /\ hist.pre # {}
    /\ hist.status = StatusBadRequest
    /\ users = hist.pre

\* ---- claims about the gateway's routing, continued
\* a request, not a preflight, on a path under /api/ whose service token is empty
EmptyToken(s) ==
    /\ s.st # "free"
    /\ s.method # "OPTIONS"
    /\ HasApiPrefix(s.path)
    /\ Token(s.path) = ""

\* C28 as stated: a path that starts with /api/ always splits into three parts
\* or more, and a path with an empty service token (/api/, /api//x) is rejected
\* by the registry lookup with 404 "Service not found"
C28_EmptyTokenAlwaysNotFound ==
    \A r \in Slots :
        /\ HasApiPrefix(reqs[r].path) => Len(pathParts(reqs[r].path)) >= 3
        /\ EmptyToken(reqs[r]) => ServiceNotFound(reqs[r])

\* C28 amended: a path that starts with /api/ always splits into three parts or
\* more and is never answered "Invalid path"; the path /api/ itself is rejected
\* by the registry lookup with 404 "Service not found"; any other path with an
\* empty service token (/api//x) never reaches the handler, the ServeMux
\* redirects it with 301; none of them reaches a backend
C28_EmptyTokenNotFoundOrRedirect ==
    \A r \in Slots :
        /\ HasApiPrefix(reqs[r].path) =>
              /\ Len(pathParts(reqs[r].path)) >= 3
              /\ reqs[r].resp.body # "Invalid path"
        /\ EmptyToken(reqs[r]) =>
              /\ reqs[r].sent = <<>>
              /\ IF reqs[r].path = <<"api", "">>
                 THEN ServiceNotFound(reqs[r]) /\ reqs[r].handler = "routeRequest"
                 ELSE /\ reqs[r].st = "done"
                      /\ reqs[r].handler = "none"
                      /\ reqs[r].resp.status = StatusMovedPermanently
                      /\ reqs[r].resp.from = "mux"

\* DELETE /api/ answered by the registry lookup
C28_Witness ==
    /\ reqs[1].st = "done"
    /\ reqs[1].method = "DELETE"
    /\ reqs[1].path = <<"api", "">>
    /\ reqs[1].handler = "routeRequest"
    /\ reqs[1].resp.body = "Service not found"

\* the entries of a sequence of records that carry the name n
Named(q, n) == {i \in DOMAIN q : q[i].name = n}

\* the probes of a request that went out to backend n
ProbesSent(s, n) == {i \in DOMAIN s.sent : s.sent[i].kind = "probe" /\ s.sent[i].svc = n}

\* C29: a health-check response lists exactly one entry per registry key, none
\* missing or repeated, each with the URL stored for that key, in whatever
\* order the registry was iterated; every backend is probed exactly once per
\* invocation, also after an earlier probe failed
C29_OneEntryPerService ==
    \A r \in Slots :
        /\ (reqs[r].st = "done" /\ reqs[r].handler = "healthCheck") =>
              /\ Len(reqs[r].services) = Cardinality(DOMAIN serviceMap)
              /\ \A n \in DOMAIN serviceMap :
                    /\ Cardinality(Named(reqs[r].services, n)) = 1
                    /\ Cardinality(Named(reqs[r].probeLog, n)) = 1
                    /\ \A i \in Named(reqs[r].services, n) : reqs[r].services[i].url = serviceMap[n]
                    /\ Cardinality(ProbesSent(reqs[r], n)) = IF Dialable(serviceMap[n]) THEN 1 ELSE 0
        /\ reqs[r].handler = "healthCheck" =>
              /\ \A n \in DOMAIN serviceMap :
                    /\ Cardinality(Named(reqs[r].services, n)) <= 1
                    /\ Cardinality(ProbesSent(reqs[r], n)) <= 1
              /\ \A i \in DOMAIN reqs[r].services : reqs[r].services[i].name \in DOMAIN serviceMap

\* the first probe failed on the wire, the second backend was probed all the
\* same and answered 200
C29_Witness ==
    /\ reqs[1].st = "done" /\ reqs[1].handler = "healthCheck"
    /\ Len(reqs[1].sent) = 2
    /\ Len(reqs[1].services) = 2
    /\ reqs[1].probeLog[1].err
    /\ reqs[1].services[1].status = "unhealthy"
    /\ reqs[1].services[2].status = "healthy"
    /\ reqs[1].services[1].name # reqs[1].services[2].name

\* a request, not a preflight, that the proxy handler resolves to service n
RoutedTo(s, n) ==
    /\ s.st # "free"
    /\ s.method # "OPTIONS"
    /\ HasApiPrefix(s.path) /\ Canonical(s.path)
    /\ Token(s.path) = n

\* C30: with a backend URL left empty the gateway still serves, and stays
\* broken for that service: every request proxied to it is answered 503 by the
\* proxy's error handler (the empty URL parses, so not 404 "Invalid URL") with
\* nothing sent, and every health check lists that service "unhealthy" and
\* answers "degraded" with 503
C30_EmptyURLBroken ==
    \A n \in DOMAIN serviceMap :
        serviceMap[n] = EmptyURL =>
            \A r \in Slots :
                /\ RoutedTo(reqs[r], n) =>
                      /\ reqs[r].st = "done"
                      /\ reqs[r].handler = "routeRequest"
                      /\ reqs[r].resp.status = StatusServiceUnavailable
                      /\ reqs[r].resp.body = "Service unavailable"
                      /\ reqs[r].answer.kind = "error"
                      /\ reqs[r].sent = <<>>
                /\ (reqs[r].st = "done" /\ reqs[r].handler = "healthCheck") =>
                      /\ \E i \in DOMAIN reqs[r].services :
                            /\ reqs[r].services[i].name = n
                            /\ reqs[r].services[i].status = "unhealthy"
                            /\ reqs[r].services[i].url = EmptyURL
                      /\ reqs[r].resp.status = StatusServiceUnavailable
                      /\ reqs[r].resp.body = "degraded"
                /\ ProbesSent(reqs[r], n) = {}

\* the gateway serves with USER_SERVICE_URL unset and has answered a request
\* for users
C30_Witness ==
    /\ gwState = "serving"
    /\ serviceMap["users"] = EmptyURL
    /\ serviceMap["products"] = ProductURL
    /\ reqs[1].st = "done"
    /\ reqs[1].method = "GET"
    /\ reqs[1].path = <<"api", "users", "1">>
    /\ reqs[1].resp.status = StatusServiceUnavailable
    /\ reqs[1].resp.from = "gateway"

====
